---- MODULE Spec2Model ----
(***************************************************************************)
(* A model of archive_tfs_repos: the run orchestrator (run_archive), the   *)
(* per-repository step sequencer (archive_one_repo), the process runner    *)
(* (run_git) and the GUI's cancel handler, together with the part of the   *)
(* file system they read and write.                                        *)
(*                                                                         *)
(* Strings are sequences of one-character strings, so that lower(),        *)
(* strip(), safe_filename() and the substring test are computed the way    *)
(* the code computes them.                                                 *)
(***************************************************************************)
EXTENDS Integers, Sequences, FiniteSets, TLC

\* ------------------------------------------------------------------ bounds

MaxRuns == 2
MaxClicks == 1
MaxFaults == 1
MaxTime == 2

\* ------------------------------------------------------- strings (utils.py)

\* Python's None where a path is expected
NoneVal == <<"None">>

Range(s) == { s[k] : k \in 1..Len(s) }

Min2(a, b) == IF a <= b THEN a ELSE b

\* str.lower() on the model's alphabet
LowerCh(c) ==
    CASE c = "A" -> "a"
      [] c = "B" -> "b"
      [] OTHER -> c

Lower(s) == [k \in 1..Len(s) |-> LowerCh(s[k])]

Whitespace == {" "}

IsAlnum(c) == c \in {"a", "b", "A", "B", "0", "1", "2", "3"}

\* str.lstrip(chars) and str.rstrip(chars), chars given as a set
RECURSIVE LStrip(_, _)
LStrip(s, drop) ==
    IF s # <<>> /\ Head(s) \in drop THEN LStrip(Tail(s), drop) ELSE s

RECURSIVE RStrip(_, _)
RStrip(s, drop) ==
    IF s # <<>> /\ s[Len(s)] \in drop THEN RStrip(SubSeq(s, 1, Len(s) - 1), drop) ELSE s

\* str.strip(): leading and trailing whitespace removed
Strip(s) == RStrip(LStrip(s, Whitespace), Whitespace)

\* `sub in s` of Python: sub occurs in s as a contiguous run
Contains(s, sub) ==
    \E k \in 0..(Len(s) - Len(sub)) :
        \A j \in 1..Len(sub) : s[k + j] = sub[j]

StartsWith(s, pre) ==
    /\ Len(pre) <= Len(s)
    /\ \A j \in 1..Len(pre) : s[j] = pre[j]

EndsWith(s, suf) ==
    /\ Len(suf) <= Len(s)
    /\ \A j \in 1..Len(suf) : s[Len(s) - Len(suf) + j] = suf[j]

\* the character safe_filename keeps or replaces
SafeCh(c) == IF IsAlnum(c) \/ c \in {"-", "_", "."} THEN c ELSE "_"

safe_filename(name) ==
    LET repl == [k \in 1..Len(name) |-> SafeCh(name[k])]
        cut == RStrip(LStrip(repl, {"_"}), {"_"})
    IN IF cut # <<>> THEN cut ELSE <<"r", "e", "p", "o">>

\* code points of the model's alphabet; a multi-character token is a file
\* name part (an extension, a timestamp field) and sorts by its first character
Ord(c) ==
    CASE c = " " -> 32
      [] c = "-" -> 45
      [] c = "." -> 46
      [] c = ".bundle" -> 46
      [] c = ".zip" -> 46
      [] c = "0" -> 48
      [] c = "1" -> 49
      [] c = "2" -> 50
      [] c = "3" -> 51
      [] c = "4" -> 52
      [] c = "A" -> 65
      [] c = "B" -> 66
      [] c = "_" -> 95
      [] c = "a" -> 97
      [] c = "b" -> 98
      [] OTHER -> 120

RECURSIVE LexLess(_, _)
LexLess(s, t) ==
    IF t = <<>> THEN FALSE
    ELSE IF s = <<>> THEN TRUE
    ELSE IF Ord(Head(s)) # Ord(Head(t)) THEN Ord(Head(s)) < Ord(Head(t))
    ELSE LexLess(Tail(s), Tail(t))

\* sorted(S)[-1]
LexMax(S) == CHOOSE m \in S : \A x \in S : x = m \/ LexLess(x, m)

\* base64 of ":<pat>" and of "<user>:<password>", tabulated for the
\* credentials the model draws
b64_basic_pat(pat) ==
    CASE pat = "tok" -> "OnRvaw=="
      [] OTHER -> "Og=="

b64_basic(user, password) ==
    CASE user = "u" /\ password = "pw" -> "dTpwdw=="
      [] OTHER -> "Og=="

\* ----------------------------------------------------- inputs of the model

\* RepoInfo (models.py): name, id, remote_url
Repo(name, id) == [name |-> name, id |-> id, remote_url |-> <<"https://srv/", id>>]

RepoA == Repo(<<"A", "b">>, "r1")
RepoB == Repo(<<"b">>, "r2")
RepoC == Repo(<<"a", " ", "b">>, "r3")
RepoD == Repo(<<"a", "_", "b">>, "r4")
RepoE == Repo(<<"a">>, "r5")

\* AuthConfig (models.py)
AuthConfigs ==
    { [mode |-> "pat", pat |-> "tok", username |-> "", password |-> ""],
      [mode |-> "userpass", pat |-> "", username |-> "u", password |-> "pw"],
      [mode |-> "pat", pat |-> "", username |-> "", password |-> ""],
      [mode |-> "userpass", pat |-> "", username |-> "", password |-> "pw"],
      [mode |-> "userpass", pat |-> "", username |-> "u", password |-> ""] }

\* auth_to_basic_b64 (archiver.py)
auth_to_basic_b64(a) ==
    IF a.mode = "pat" THEN b64_basic_pat(a.pat)
    ELSE b64_basic(a.username, a.password)

\* ------------------------------------------ filter and limit (run_archive)

MatchesOnly(r, only) == Contains(Lower(r.name), only)

FilterByOnly(list, only) ==
    IF only # <<>> THEN SelectSeq(list, LAMBDA r : MatchesOnly(r, only)) ELSE list

LimitByMax(list, max_repos) ==
    IF max_repos # 0 /\ max_repos > 0
    THEN SubSeq(list, 1, Min2(max_repos, Len(list)))
    ELSE list

\* a plausible slip: the limit cut before the filter
LimitThenFilter(list, only_substring, max_repos) ==
    FilterByOnly(LimitByMax(list, max_repos), Lower(Strip(only_substring)))

\* lines 309-316 of run_archive: the list the loop iterates
FilterRepos(list, only_substring, max_repos) ==
    LimitByMax(FilterByOnly(list, Lower(Strip(only_substring))), max_repos)

\* ------------------------------------------------- paths and file names

MirrorName(safe) == safe \o <<".git">>
BundleName(safe) == safe \o <<".bundle">>

\* ts_compact(): "%Y%m%d_%H%M%S", the clock reading t as date and time fields
ts_compact(t) == <<ToString(t), "_", "0">>

\* pack_bundle_to_zip's zip_name
ZipName(safe, t) == safe \o <<"_">> \o ts_compact(t) \o <<".zip">>

\* a plausible slip: the pattern has lost the timestamp part
GlobZipExact(name, safe) == name = safe \o <<".zip">>

\* Path.glob(f"{repo_safe}_*.zip") on a file name
GlobZip(name, safe) ==
    /\ Len(name) >= Len(safe) + 2
    /\ StartsWith(name, safe \o <<"_">>)
    /\ EndsWith(name, <<".zip">>)

\* --------------------------------------------------- run_git's arguments

HeaderArg(b64) == <<"http.extraHeader=", "Authorization:", " ", "Basic", " ", b64>>

MaskedArg == <<"http.extraHeader=", "Authorization:", " ", "Basic", " ", "***REDACTED***">>

\* the argv archive_one_repo builds for each step
GitArgs(stp, repo, b64) ==
    LET safe == safe_filename(repo.name) IN
    CASE stp = "clone" ->
           << <<"git">>, <<"-c">>, HeaderArg(b64), <<"-c">>, <<"core.askPass=">>,
              <<"clone">>, <<"--mirror">>, <<"--progress">>, repo.remote_url,
              <<"mirrors/">> \o MirrorName(safe) >>
      [] stp = "bundle" ->
           << <<"git">>, <<"bundle">>, <<"create">>,
              <<"bundles/">> \o BundleName(safe), <<"--all">> >>
      [] OTHER ->
           << <<"git">>, <<"bundle">>, <<"verify">>,
              <<"bundles/">> \o BundleName(safe) >>

\* mask_args' test of one argument
IsAuthArg(a) ==
    \/ Contains(a, <<"http.extraHeader=", "Authorization:">>)
    \/ Contains(a, <<"Authorization:", " ", "Basic">>)

\* a plausible slip: nothing is masked
MaskNothing(a) == a

MaskArg(a) == IF IsAuthArg(a) THEN MaskedArg ELSE a

RECURSIVE JoinSp(_)
JoinSp(args) ==
    IF args = <<>> THEN <<>>
    ELSE IF Len(args) = 1 THEN Head(args)
    ELSE Head(args) \o <<" ">> \o JoinSp(Tail(args))

\* mask_args (git_ops.py): the text after "RUN: "
mask_args(cmd) == JoinSp([k \in 1..Len(cmd) |-> MaskArg(cmd[k])])

\* the step's name in archive_one_repo's failure message
StepLabel(stp) ==
    CASE stp = "clone" -> "git clone --mirror"
      [] stp = "bundle" -> "git bundle create"
      [] OTHER -> "git bundle verify"

StepFailMsg(stp, rc) == <<StepLabel(stp), " failed (rc=", ToString(rc), ")">>

NextStep(stp) == IF stp = "clone" THEN "bundle" ELSE "verify"

\* ------------------------------------------------------------------ state

VARIABLES
    auth,          \* AuthConfig given to run_archive
    opts,          \* ArchiveOptions given to run_archive
    listing,       \* what the server lists
    cancellable,   \* whether is_cancelled / current_proc_setter are given (GUI)
    runs_planned,  \* how many times the user starts a run
    pc,            \* the worker's position
    run,           \* number of runs started
    repos,         \* the filtered and limited list the loop iterates
    i,             \* the loop's index, from 1
    step,          \* the sequencer's current step
    rows,          \* data rows of this run's CSV report
    ok_count,
    fail_count,
    result,        \* (success, msg, artifact_path) to be written as a row
    cancel_flag,   \* App._cancel_flag
    current_proc,  \* App._current_proc: an index of procs, or 0 for None
    procs,         \* the processes this run launched
    cpc,           \* the cancel handler's position
    cp,            \* the cancel handler's local p
    clicks,        \* cancel requests so far
    mirrors,       \* mirror directories under mirrors/
    bundle_files,  \* *.bundle files under bundles/
    zip_files,     \* *.zip files under bundles/
    mirrors_dir,   \* whether mirrors/ exists
    now,           \* the clock, in seconds
    log,           \* "RUN: ..." lines of this run's log file
    progress,      \* "RUN: ..." lines given to on_progress
    outcome,       \* how the run ended
    faults,        \* the unexpected faults of this run
    nfaults,       \* unexpected faults so far
    hist,          \* what earlier moments looked like
    stdout,        \* the bytes a git process writes to its output
    rd,            \* how many of them run_git has read
    buf,           \* run_git's buf: the bytes read and not yet forwarded
    fwd,           \* the strings passed to on_output, in order
    spc            \* run_git's position in the read loop

vars == << auth, opts, listing, cancellable, runs_planned, pc, run, repos, i, step, rows,
           ok_count, fail_count, result, cancel_flag, current_proc, procs,
           cpc, cp, clicks, mirrors, bundle_files, zip_files, mirrors_dir,
           now, log, progress, outcome, faults, nfaults, hist,
           stdout, rd, buf, fwd, spc >>

streamVars == << stdout, rd, buf, fwd, spc >>
inputVars == << auth, opts, listing, cancellable, runs_planned >>
fsVars == << mirrors, bundle_files, zip_files, mirrors_dir >>
cancelVars == << cpc, cp, clicks >>
countVars == << rows, ok_count, fail_count >>
logVars == << log, progress >>

ExitCodes == {0, 1}

\* Popen.returncode of a process ended by terminate() (SIGTERM)
TermRc == -15

NoResult == [success |-> FALSE, msg |-> <<>>, artifact_path |-> NoneVal]

\* a plausible slip: the credential is not validated
AuthAlwaysValid(a) == TRUE

\* AuthConfig.validate (models.py), called by auth_to_basic_b64 at line 288
AuthValid(a) ==
    IF a.mode = "pat" THEN a.pat # ""
    ELSE a.username # "" /\ a.password # ""

\* the switches of ArchiveOptions; delete_bundle_after_zip is read only when
\* zip_bundles is set
Switches ==
    { o \in [ keep_mirrors : BOOLEAN, zip_bundles : BOOLEAN,
              delete_bundle_after_zip : BOOLEAN, skip_existing : BOOLEAN ] :
        o.zip_bundles \/ o.delete_bundle_after_zip }

\* what the server lists, with the --only and --max-repos given
RunInput(l, only, max) == [listing |-> l, only_substring |-> only, max_repos |-> max]

RunInputs ==
    { RunInput(<<>>, <<>>, 0),
      RunInput(<<RepoA, RepoB>>, <<>>, 0),
      RunInput(<<RepoC, RepoD>>, <<>>, 0),
      RunInput(<<RepoB, RepoE, RepoD, RepoA>>, <<" ", "A">>, 2) }

Options(sw, sleep, in) ==
    [ keep_mirrors |-> sw.keep_mirrors, zip_bundles |-> sw.zip_bundles,
      delete_bundle_after_zip |-> sw.delete_bundle_after_zip,
      skip_existing |-> sw.skip_existing, sleep_sec |-> sleep,
      only_substring |-> in.only_substring, max_repos |-> in.max_repos ]

InitWith(auths, switches, sleeps, inputs, modes, plans) ==
    /\ auth \in auths
    /\ \E sw \in switches, sl \in sleeps, in \in inputs :
         /\ opts = Options(sw, sl, in)
         /\ listing = in.listing
    /\ cancellable \in modes
    /\ runs_planned \in plans
    /\ pc = "idle"
    /\ run = 0
    /\ repos = <<>>
    /\ i = 1
    /\ step = "clone"
    /\ rows = <<>>
    /\ ok_count = 0
    /\ fail_count = 0
    /\ result = NoResult
    /\ cancel_flag = FALSE
    /\ current_proc = 0
    /\ procs = <<>>
    /\ cpc = "idle"
    /\ cp = 0
    /\ clicks = 0
    /\ mirrors = {}
    /\ bundle_files = {}
    /\ zip_files = {}
    /\ mirrors_dir = FALSE
    /\ now = 1
    /\ log = <<>>
    /\ progress = <<>>
    /\ outcome = "none"
    /\ faults = <<>>
    /\ nfaults = 0
    /\ hist = [ prev_returned |-> FALSE, prev_allok |-> FALSE,
                start_bundles |-> {}, start_zips |-> {},
                click_pc |-> "none", click_rows |-> 0, killed_live |-> FALSE,
                list_requested |-> FALSE ]

\* no output is being split: the read loop's effect on everything else is
\* ReadChunk, ReadFault and ReadEof
StreamIdle ==
    /\ stdout = <<>>
    /\ rd = 0
    /\ buf = <<>>
    /\ fwd = <<>>
    /\ spc = "idle"

\* ---------------------------------------------------------------- helpers

CurRepo == repos[i]

CurSafe == safe_filename(CurRepo.name)

\* `is_cancelled and is_cancelled()`
IsCancelled == cancellable /\ cancel_flag

HasBundle(name) == \E f \in bundle_files : f.name = name

\* sorted(paths.bundles_dir.glob(f"{repo_safe}_*.zip"))
ExistingZips(safe) == { f.name : f \in { z \in zip_files : GlobZip(z.name, safe) } }

\* lines 185-189 of archive_one_repo
SkipsZip(safe) ==
    opts.zip_bundles /\ opts.skip_existing /\ ExistingZips(safe) # {}

\* a plausible slip: the bundle check is lost
SkipsBundleNever(safe) == FALSE

\* lines 191-193 of archive_one_repo
SkipsBundle(safe) ==
    (~opts.zip_bundles) /\ opts.skip_existing /\ HasBundle(BundleName(safe))

\* lines 185-193 of archive_one_repo: the early return, when there is one
SkipResult(safe) ==
    IF SkipsZip(safe)
    THEN [success |-> TRUE, msg |-> <<"SKIPPED (zip exists)">>,
          artifact_path |-> <<"bundles/">> \o LexMax(ExistingZips(safe))]
    ELSE [success |-> TRUE, msg |-> <<"SKIPPED (bundle exists)">>,
          artifact_path |-> <<"bundles/">> \o BundleName(safe)]

\* a plausible slip: the exit code is not looked at and the pipeline goes on
StepFailureGoesOn(stp, rc, safe) ==
    [pc |-> IF stp = "verify" THEN "pack" ELSE "git_enter", outcome |-> "running",
     result |-> NoResult]

\* a plausible slip: the bundle path is not returned when verify fails
StepFailureNoPath(stp, rc, safe) ==
    [pc |-> "row", outcome |-> "running",
     result |-> [success |-> FALSE, msg |-> StepFailMsg(stp, rc), artifact_path |-> NoneVal]]

\* a plausible slip: the first non-zero exit code aborts the whole run
StepFailureAborts(stp, rc, safe) ==
    [pc |-> "idle", outcome |-> "error",
     result |-> [success |-> FALSE, msg |-> StepFailMsg(stp, rc), artifact_path |-> NoneVal]]

\* lines 220-246 of archive_one_repo: a step returned rc # 0
StepFailure(stp, rc, safe) ==
    [pc |-> "row", outcome |-> "running",
     result |-> [success |-> FALSE, msg |-> StepFailMsg(stp, rc),
                 artifact_path |-> IF stp = "verify"
                                   THEN <<"bundles/">> \o BundleName(safe)
                                   ELSE NoneVal]]

\* a plausible slip: the fault escapes the per-repository boundary
FaultPropagates(e) ==
    [pc |-> "idle", outcome |-> "error",
     result |-> [success |-> FALSE, msg |-> <<"EXCEPTION: ", e>>, artifact_path |-> NoneVal]]

\* lines 346-347 of run_archive: any exception but CancelledError
HandleFault(e) ==
    [pc |-> "row", outcome |-> "running",
     result |-> [success |-> FALSE, msg |-> <<"EXCEPTION: ", e>>, artifact_path |-> NoneVal]]

\* what the end of a process leaves on disk; `left` says whether a failed or
\* killed process leaves its partial output behind
MirrorsAfter(p, rc, left) ==
    IF p.step # "clone" THEN mirrors
    ELSE IF rc = 0 \/ left THEN mirrors \cup {MirrorName(p.safe)}
    ELSE mirrors

BundlesAfter(p, rc, left) ==
    LET name == BundleName(p.safe)
        others == { f \in bundle_files : f.name # name }
    IN CASE p.step = "bundle" ->
              IF rc = 0 \/ left
              THEN others \cup {[name |-> name, src |-> p.src, complete |-> rc = 0,
                                 verified |-> FALSE]}
              ELSE bundle_files
         [] p.step = "verify" /\ rc = 0 ->
              { IF f.name = name THEN [f EXCEPT !.verified = TRUE] ELSE f : f \in bundle_files }
         [] OTHER -> bundle_files

LeftChoices(p, rc) ==
    IF rc # 0 /\ p.step \in {"clone", "bundle"} THEN BOOLEAN ELSE {FALSE}

\* the exit codes the process can end with by itself
OwnExitCodes(p) ==
    IF p.step = "verify"
       /\ ~(\E f \in bundle_files : f.name = BundleName(p.safe) /\ f.complete)
    THEN ExitCodes \ {0}
    ELSE ExitCodes

Ended(ps, id, rc, killed) ==
    [ps EXCEPT ![id].state = "exited", ![id].rc = rc, ![id].killed = killed]

\* ---------------------------------------------------- run_archive: start

\* a plausible slip: Start does not look at the worker
StartNeverRefused == FALSE

\* a plausible slip: Start looks at the process handle, not at the worker
StartRefusedWhileGitRuns == current_proc # 0

\* gui.py lines 174-176: `self._worker and self._worker.is_alive()`; on the
\* command line run_archive is called once the previous call has returned
StartRefused == pc # "idle"

\* App._start / cli.main calling run_archive, lines 283-323
Start ==
    /\ ~StartRefused
    /\ cpc = "idle"
    /\ run < runs_planned
    /\ run' = run + 1
    /\ cancel_flag' = FALSE
    /\ mirrors_dir' = TRUE
    /\ rows' = <<>>
    /\ ok_count' = 0
    /\ fail_count' = 0
    /\ result' = NoResult
    /\ procs' = <<>>
    /\ log' = <<>>
    /\ progress' = <<>>
    /\ faults' = <<>>
    /\ i' = 1
    /\ step' = "clone"
    /\ hist' = [ prev_returned |-> outcome = "returned",
                 prev_allok |-> outcome = "returned" /\ fail_count = 0,
                 start_bundles |-> { f.name : f \in bundle_files },
                 start_zips |-> { f.name : f \in zip_files },
                 click_pc |-> "none", click_rows |-> 0, killed_live |-> FALSE,
                 list_requested |-> AuthValid(auth) ]
    /\ IF ~AuthValid(auth)
       THEN /\ outcome' = "error"
            /\ pc' = "idle"
            /\ repos' = <<>>
       ELSE \E listed \in BOOLEAN :
              IF listed
              THEN /\ repos' = FilterRepos(listing, opts.only_substring, opts.max_repos)
                   /\ outcome' = "running"
                   /\ pc' = "loop"
              ELSE /\ repos' = <<>>
                   /\ outcome' = "error"
                   /\ pc' = "idle"
    /\ UNCHANGED << inputVars, streamVars, cancelVars, current_proc, mirrors, bundle_files, zip_files,
                    now, nfaults >>

\* ----------------------------------------------------- run_archive: loop

\* a plausible slip: the loop does not look at the flag
LoopIgnoresCancel == FALSE

\* line 326: the loop's own check, before each repository
LoopSeesCancel == IsCancelled

\* lines 325-329: the next repository's pipeline starts
LoopNext ==
    /\ pc = "loop"
    /\ i <= Len(repos)
    /\ ~LoopSeesCancel
    /\ pc' = "skipcheck"
    /\ UNCHANGED << inputVars, streamVars, run, repos, i, step, countVars, result, cancel_flag,
                    current_proc, procs, cancelVars, fsVars, now, logVars, outcome,
                    faults, nfaults, hist >>

\* lines 326-327: CancelledError before processing the next repository
LoopCancelled ==
    /\ pc = "loop"
    /\ i <= Len(repos)
    /\ LoopSeesCancel
    /\ pc' = "idle"
    /\ outcome' = "cancelled"
    /\ UNCHANGED << inputVars, streamVars, run, repos, i, step, countVars, result, cancel_flag,
                    current_proc, procs, cancelVars, fsVars, now, logVars,
                    faults, nfaults, hist >>

\* lines 368-379: the loop is over, the run returns its RunResult
Finish ==
    /\ pc = "loop"
    /\ i > Len(repos)
    /\ pc' = "idle"
    /\ outcome' = "returned"
    /\ mirrors_dir' = IF ~opts.keep_mirrors /\ mirrors_dir /\ mirrors = {}
                      THEN FALSE ELSE mirrors_dir
    /\ UNCHANGED << inputVars, streamVars, run, repos, i, step, countVars, result, cancel_flag,
                    current_proc, procs, cancelVars, mirrors, bundle_files, zip_files,
                    now, logVars, faults, nfaults, hist >>

\* ------------------------------------------- archive_one_repo and run_git

\* lines 185-193: skip_existing finds the artifact, nothing else is done
SkipExisting ==
    /\ pc = "skipcheck"
    /\ SkipsZip(CurSafe) \/ SkipsBundle(CurSafe)
    /\ result' = SkipResult(CurSafe)
    /\ pc' = "row"
    /\ UNCHANGED << inputVars, streamVars, run, repos, i, step, countVars, cancel_flag,
                    current_proc, procs, cancelVars, fsVars, now, logVars, outcome,
                    faults, nfaults, hist >>

\* lines 195-199: no skip; a stale mirror is removed before the clone
BeginPipeline ==
    /\ pc = "skipcheck"
    /\ ~(SkipsZip(CurSafe) \/ SkipsBundle(CurSafe))
    /\ mirrors' = mirrors \ {MirrorName(CurSafe)}
    /\ step' = "clone"
    /\ pc' = "git_enter"
    /\ UNCHANGED << inputVars, streamVars, run, repos, i, countVars, result, cancel_flag,
                    current_proc, procs, cancelVars, bundle_files, zip_files,
                    mirrors_dir, now, logVars, outcome, faults, nfaults, hist >>

\* a plausible slip: the old bundle is left where it is
BundlesKept == bundle_files

\* lines 223-224, before run_git for bundle-create: the old bundle is unlinked
BundlesBeforeStep ==
    IF step = "bundle"
    THEN { f \in bundle_files : f.name # BundleName(CurSafe) }
    ELSE bundle_files

\* a plausible slip: run_git has no check of its own before the launch
EntryIgnoresCancel == FALSE

\* run_git line 42: the check made when run_git is entered
EntrySeesCancel == IsCancelled

\* run_git lines 42-43: cancelled before the process is started
GitEnterCancelled ==
    /\ pc = "git_enter"
    /\ EntrySeesCancel
    /\ bundle_files' = BundlesBeforeStep
    /\ pc' = "idle"
    /\ outcome' = "cancelled"
    /\ UNCHANGED << inputVars, streamVars, run, repos, i, step, countVars, result, cancel_flag,
                    current_proc, procs, cancelVars, mirrors, zip_files, mirrors_dir,
                    now, logVars, faults, nfaults, hist >>

\* run_git lines 45-53: the masked command line is logged and sent to on_output
GitEnterRun ==
    /\ pc = "git_enter"
    /\ ~EntrySeesCancel
    /\ bundle_files' = BundlesBeforeStep
    /\ LET cmd_str == mask_args(GitArgs(step, CurRepo, auth_to_basic_b64(auth)))
       IN /\ log' = Append(log, <<"RUN: ">> \o cmd_str)
          /\ progress' = Append(progress, <<"RUN: ">> \o cmd_str)
    /\ pc' = "popen"
    /\ UNCHANGED << inputVars, streamVars, run, repos, i, step, countVars, result, cancel_flag,
                    current_proc, procs, cancelVars, mirrors, zip_files, mirrors_dir,
                    now, outcome, faults, nfaults, hist >>

\* run_git lines 56-64: the process is launched with the original argv
PopenOk ==
    /\ pc = "popen"
    /\ procs' = Append(procs,
                    [ idx |-> i, step |-> step, safe |-> CurSafe, src |-> CurRepo.id,
                      argv |-> GitArgs(step, CurRepo, auth_to_basic_b64(auth)),
                      logged |-> log[Len(log)],
                      state |-> "running", rc |-> 0, killed |-> FALSE,
                      flag_at_launch |-> cancel_flag ])
    /\ pc' = "set_proc"
    /\ UNCHANGED << inputVars, streamVars, run, repos, i, step, countVars, result, cancel_flag,
                    current_proc, cancelVars, fsVars, now, logVars, outcome,
                    faults, nfaults, hist >>

\* run_git lines 56-64: Popen raises (git cannot be started)
PopenFault ==
    /\ pc = "popen"
    /\ nfaults < MaxFaults
    /\ nfaults' = nfaults + 1
    /\ faults' = Append(faults, [idx |-> i, what |-> "popen"])
    /\ LET h == HandleFault("popen")
       IN /\ pc' = h.pc
          /\ outcome' = h.outcome
          /\ result' = h.result
    /\ UNCHANGED << inputVars, streamVars, run, repos, i, step, countVars, cancel_flag,
                    current_proc, procs, cancelVars, fsVars, now, logVars, hist >>

\* a plausible slip: the handle is not cleared when run_git exits
HandleKept == current_proc

\* run_git lines 147-149: the finally clause, current_proc_setter(None); in
\* the command-line run there is no setter and the handle stays None
HandleAfterExit == 0

\* run_git lines 66-67: current_proc_setter(p)
SetProc ==
    /\ pc = "set_proc"
    /\ current_proc' = IF cancellable THEN Len(procs) ELSE current_proc
    /\ pc' = "poll"
    /\ UNCHANGED << inputVars, streamVars, run, repos, i, step, countVars, result, cancel_flag,
                    procs, cancelVars, fsVars, now, logVars, outcome, faults,
                    nfaults, hist >>

\* run_git lines 88-93 and 147-149: the poll sees the flag, terminates the
\* process and raises CancelledError; the finally clause clears the handle
PollCancelled ==
    /\ pc = "poll"
    /\ IsCancelled
    /\ LET id == Len(procs)
           p == procs[id]
       IN IF p.state = "running"
          THEN \E left \in LeftChoices(p, TermRc) :
                 /\ procs' = Ended(procs, id, TermRc, TRUE)
                 /\ mirrors' = MirrorsAfter(p, TermRc, left)
                 /\ bundle_files' = BundlesAfter(p, TermRc, left)
          ELSE UNCHANGED << procs, mirrors, bundle_files >>
    /\ current_proc' = HandleAfterExit
    /\ pc' = "idle"
    /\ outcome' = "cancelled"
    /\ UNCHANGED << inputVars, streamVars, run, repos, i, step, countVars, result, cancel_flag,
                    cancelVars, zip_files, mirrors_dir, now, logVars, faults,
                    nfaults, hist >>

\* run_git lines 88, 96: not cancelled, the loop goes on to read1
PollContinue ==
    /\ pc = "poll"
    /\ ~IsCancelled
    /\ pc' = "read"
    /\ UNCHANGED << inputVars, streamVars, run, repos, i, step, countVars, result, cancel_flag,
                    current_proc, procs, cancelVars, fsVars, now, logVars, outcome,
                    faults, nfaults, hist >>

\* run_git lines 96-139: read1 returns a chunk while the process is writing;
\* it is logged and forwarded, and the loop polls again
ReadChunk ==
    /\ pc = "read"
    /\ procs[Len(procs)].state = "running"
    /\ pc' = "poll"
    /\ UNCHANGED << inputVars, streamVars, run, repos, i, step, countVars, result, cancel_flag,
                    current_proc, procs, cancelVars, fsVars, now, logVars, outcome,
                    faults, nfaults, hist >>

\* run_git lines 72, 100-110, 147-149: opening or writing the log fails; the
\* finally clause clears the handle and the process is left behind
ReadFault ==
    /\ pc = "read"
    /\ procs[Len(procs)].state = "running"
    /\ nfaults < MaxFaults
    /\ nfaults' = nfaults + 1
    /\ faults' = Append(faults, [idx |-> i, what |-> "io"])
    /\ procs' = [procs EXCEPT ![Len(procs)].state = "abandoned"]
    /\ current_proc' = HandleAfterExit
    /\ LET h == HandleFault("io")
       IN /\ pc' = h.pc
          /\ outcome' = h.outcome
          /\ result' = h.result
    /\ UNCHANGED << inputVars, streamVars, run, repos, i, step, countVars, cancel_flag,
                    cancelVars, fsVars, now, logVars, hist >>

\* run_git lines 97-98, 141-149: end of output, p.wait() gives the exit code,
\* the handle is cleared; then lines 220-246 of archive_one_repo
ReadEof ==
    /\ pc = "read"
    /\ LET id == Len(procs)
           p == procs[id]
       IN /\ p.state = "exited"
          /\ procs' = [procs EXCEPT ![id].state = "reaped"]
          /\ current_proc' = HandleAfterExit
          /\ IF p.rc # 0
             THEN LET h == StepFailure(step, p.rc, CurSafe)
                  IN /\ pc' = h.pc
                     /\ outcome' = h.outcome
                     /\ result' = h.result
                     /\ step' = step
             ELSE /\ pc' = IF step = "verify" THEN "pack" ELSE "git_enter"
                  /\ step' = IF step = "verify" THEN step ELSE NextStep(step)
                  /\ UNCHANGED << outcome, result >>
    /\ UNCHANGED << inputVars, streamVars, run, repos, i, countVars, cancel_flag, cancelVars,
                    fsVars, now, logVars, faults, nfaults, hist >>

\* str(artifact_path) if artifact_path else ""
RowPath(a) == IF a = NoneVal THEN <<>> ELSE a

PackTimes == IF opts.zip_bundles THEN { t \in {now, now + 1} : t <= MaxTime } ELSE {now}

\* a plausible slip: the bundle is deleted whenever a package was made
DeletesBundleWhenZipped == opts.zip_bundles

\* lines 250 and 255: the bundle is deleted after packaging
DeletesBundle == opts.zip_bundles /\ opts.delete_bundle_after_zip

\* a plausible slip: the mirror of an archived repository is never removed
KeepsEveryMirror == FALSE

\* lines 259-261: the mirror is removed once the artifact is made
RemovesMirror == ~opts.keep_mirrors

\* lines 248-263 of archive_one_repo: package, delete the bundle, remove the mirror
PackOk ==
    /\ pc = "pack"
    /\ \E t \in PackTimes :
         LET bname == BundleName(CurSafe)
             zname == ZipName(CurSafe, t)
             inside == { f \in bundle_files : f.name = bname }
         IN /\ now' = t
            /\ zip_files' =
                 IF opts.zip_bundles
                 THEN { z \in zip_files : z.name # zname }
                      \cup { [name |-> zname, src |-> CurRepo.id, complete |-> TRUE,
                              verified |-> \A f \in inside : f.verified] }
                 ELSE zip_files
            /\ bundle_files' =
                 IF DeletesBundle
                 THEN bundle_files \ inside
                 ELSE bundle_files
            /\ result' = [success |-> TRUE, msg |-> <<"OK">>,
                          artifact_path |-> IF opts.zip_bundles
                                            THEN <<"bundles/">> \o zname
                                            ELSE <<"bundles/">> \o bname]
    /\ mirrors' = IF RemovesMirror THEN mirrors \ {MirrorName(CurSafe)} ELSE mirrors
    /\ pc' = "row"
    /\ UNCHANGED << inputVars, streamVars, run, repos, i, step, countVars, cancel_flag,
                    current_proc, procs, cancelVars, mirrors_dir, logVars, outcome,
                    faults, nfaults, hist >>

\* lines 118-128: writing the package fails; the file may be left half-written
PackFault ==
    /\ pc = "pack"
    /\ opts.zip_bundles
    /\ nfaults < MaxFaults
    /\ nfaults' = nfaults + 1
    /\ faults' = Append(faults, [idx |-> i, what |-> "zip"])
    /\ \E t \in PackTimes, partial \in BOOLEAN :
         LET zname == ZipName(CurSafe, t)
         IN /\ now' = t
            /\ zip_files' =
                 IF partial
                 THEN { z \in zip_files : z.name # zname }
                      \cup { [name |-> zname, src |-> CurRepo.id, complete |-> FALSE,
                              verified |-> FALSE] }
                 ELSE zip_files
    /\ LET h == HandleFault("zip")
       IN /\ pc' = h.pc
          /\ outcome' = h.outcome
          /\ result' = h.result
    /\ UNCHANGED << inputVars, streamVars, run, repos, i, step, countVars, cancel_flag,
                    current_proc, procs, cancelVars, mirrors, bundle_files,
                    mirrors_dir, logVars, hist >>

\* a plausible slip: a failed repository gets no row
RowOnlyOnSuccess(r, res) == IF res.success THEN <<r>> ELSE <<>>

\* lines 354-362 of run_archive: the row written for one repository
RowsFor(r, res) ==
    << [ repo_name |-> r.name, repo_id |-> r.id, remote_url |-> r.remote_url,
         artifact_path |-> RowPath(res.artifact_path),
         status |-> IF res.success THEN "OK" ELSE "FAIL",
         message |-> res.msg ] >>

\* lines 349-366 of run_archive: count, write the row, flush
WriteRow ==
    /\ pc = "row"
    /\ ok_count' = IF result.success THEN ok_count + 1 ELSE ok_count
    /\ fail_count' = IF result.success THEN fail_count ELSE fail_count + 1
    /\ rows' = rows \o RowsFor(CurRepo, result)
    /\ IF opts.sleep_sec > 0
       THEN pc' = "sleep" /\ i' = i
       ELSE pc' = "loop" /\ i' = i + 1
    /\ UNCHANGED << inputVars, streamVars, run, repos, step, result, cancel_flag, current_proc,
                    procs, cancelVars, fsVars, now, logVars, outcome, faults,
                    nfaults, hist >>

\* lines 365-366: time.sleep(opts.sleep_sec) returns
Sleep ==
    /\ pc = "sleep"
    /\ pc' = "loop"
    /\ i' = i + 1
    /\ UNCHANGED << inputVars, streamVars, run, repos, step, countVars, result, cancel_flag,
                    current_proc, procs, cancelVars, fsVars, now, logVars, outcome,
                    faults, nfaults, hist >>

\* --------------------------------------------------- the external process

\* a launched git process ends by itself
ProcExit ==
    \E id \in 1..Len(procs) :
        LET p == procs[id]
        IN /\ p.state = "running"
           /\ \E rc \in OwnExitCodes(p) :
                \E left \in LeftChoices(p, rc) :
                    /\ procs' = Ended(procs, id, rc, FALSE)
                    /\ mirrors' = MirrorsAfter(p, rc, left)
                    /\ bundle_files' = BundlesAfter(p, rc, left)
           /\ UNCHANGED << inputVars, streamVars, pc, run, repos, i, step, countVars, result,
                           cancel_flag, current_proc, cancelVars, zip_files,
                           mirrors_dir, now, logVars, outcome, faults, nfaults, hist >>

\* ------------------------------------------------------------ App._cancel

\* gui.py lines 216-218: the worker is alive, the flag is set
CancelClick ==
    /\ cancellable
    /\ pc # "idle"
    /\ cpc = "idle"
    /\ clicks < MaxClicks
    /\ clicks' = clicks + 1
    /\ cancel_flag' = TRUE
    /\ cpc' = "read_proc"
    /\ hist' = IF cancel_flag THEN hist
               ELSE [hist EXCEPT !.click_pc = pc, !.click_rows = Len(rows)]
    /\ UNCHANGED << inputVars, streamVars, pc, run, repos, i, step, countVars, result,
                    current_proc, procs, cp, fsVars, now, logVars, outcome,
                    faults, nfaults >>

\* gui.py line 220: p = self._current_proc
CancelReadProc ==
    /\ cpc = "read_proc"
    /\ cp' = current_proc
    /\ cpc' = IF current_proc = 0 THEN "idle" ELSE "terminate"
    /\ UNCHANGED << inputVars, streamVars, pc, run, repos, i, step, countVars, result,
                    cancel_flag, current_proc, procs, clicks, fsVars, now, logVars,
                    outcome, faults, nfaults, hist >>

\* gui.py lines 221-225: p.terminate(), errors swallowed
CancelTerminate ==
    /\ cpc = "terminate"
    /\ LET p == procs[cp]
       IN IF p.state = "running"
          THEN \E left \in LeftChoices(p, TermRc) :
                 /\ procs' = Ended(procs, cp, TermRc, TRUE)
                 /\ mirrors' = MirrorsAfter(p, TermRc, left)
                 /\ bundle_files' = BundlesAfter(p, TermRc, left)
                 /\ hist' = [hist EXCEPT !.killed_live = TRUE]
          ELSE UNCHANGED << procs, mirrors, bundle_files, hist >>
    /\ cpc' = "idle"
    /\ cp' = 0
    /\ UNCHANGED << inputVars, streamVars, pc, run, repos, i, step, countVars, result,
                    cancel_flag, current_proc, clicks, zip_files, mirrors_dir, now,
                    logVars, outcome, faults, nfaults >>

\* ------------------------------------------ run_git: forwarding the output

\* the model's bytes: a letter, a space, the two line ends, and the lead byte
\* "L" and continuation byte "C" of one two-byte UTF-8 character
Bytes == {"a", " ", "\n", "\r", "L", "C"}

\* line 79, bytes.decode("utf-8", errors="replace"): "L" "C" is the character
\* "E"; a lead byte without its continuation, or a continuation byte on its
\* own, becomes the replacement character "?"
RECURSIVE Decode(_)
Decode(bs) ==
    IF bs = <<>> THEN <<>>
    ELSE IF Head(bs) = "L" /\ Len(bs) >= 2 /\ bs[2] = "C"
         THEN <<"E">> \o Decode(SubSeq(bs, 3, Len(bs)))
         ELSE IF Head(bs) \in {"L", "C"}
              THEN <<"?">> \o Decode(Tail(bs))
              ELSE <<Head(bs)>> \o Decode(Tail(bs))

\* the sizes of run_git in units of 2048 bytes, except the chunk, which may
\* be as short as one byte: read1(4096), len(buf) > 8192, buf[-2048:]
ReadSize == 2
BufLimit == 4
FlushKeep == 1

\* what str.strip() removes, on the model's alphabet
OutputWhitespace == {" ", "\n", "\r"}

\* lines 75-85: emit_piece, as the list of strings given to on_output so far
emit_piece(sent, piece_bytes) ==
    LET s == RStrip(LStrip(Decode(piece_bytes), {"\n"}), {"\n"})
    IN IF RStrip(LStrip(s, OutputWhitespace), OutputWhitespace) # <<>>
       THEN Append(sent, s)
       ELSE sent

\* bytes.find(c), from 1; 0 where Python gives -1
Find(bs, c) ==
    IF c \in Range(bs)
    THEN CHOOSE k \in 1..Len(bs) : bs[k] = c /\ \A j \in 1..(k - 1) : bs[j] # c
    ELSE 0

\* a plausible slip: only the newline ends a line
CutAtNewline(bs) == Find(bs, "\n")

\* lines 115-133: the position of the first line end in buf, 0 when there is none
CutAt(bs) ==
    LET npos == Find(bs, "\n")
        rpos == Find(bs, "\r")
    IN IF npos = 0 THEN rpos
       ELSE IF rpos = 0 THEN npos
       ELSE Min2(npos, rpos)

\* lines 114-139: the inner loop over buf, until no line end is left in it
RECURSIVE SplitBuf(_, _)
SplitBuf(b, sent) ==
    LET cut == CutAt(b)
    IN IF cut = 0
       THEN IF Len(b) > BufLimit
            THEN [buf |-> <<>>,
                  fwd |-> emit_piece(sent, SubSeq(b, Len(b) - FlushKeep + 1, Len(b)))]
            ELSE [buf |-> b, fwd |-> sent]
       ELSE SplitBuf(SubSeq(b, cut + 1, Len(b)), emit_piece(sent, SubSeq(b, 1, cut - 1)))

runVars == << inputVars, pc, run, repos, i, step, countVars, result, cancel_flag,
              current_proc, procs, cancelVars, fsVars, now, logVars, outcome,
              faults, nfaults, hist >>

\* lines 96-139: read1 returns a chunk, which is added to buf and split
ReadSplit ==
    /\ spc = "read"
    /\ \E n \in 1..Min2(ReadSize, Len(stdout) - rd) :
         LET r == SplitBuf(buf \o SubSeq(stdout, rd + 1, rd + n), fwd)
         IN /\ rd' = rd + n
            /\ buf' = r.buf
            /\ fwd' = r.fwd
    /\ UNCHANGED << runVars, stdout, spc >>

\* lines 97-98 and 141-143: read1 returns nothing, what is left in buf is flushed
FlushRemaining ==
    /\ spc = "read"
    /\ rd = Len(stdout)
    /\ fwd' = IF buf # <<>> THEN emit_piece(fwd, buf) ELSE fwd
    /\ spc' = "done"
    /\ UNCHANGED << runVars, stdout, rd, buf >>

\* ------------------------------------------------------------- cli.main

\* a plausible slip: CancelledError falls into the general handler
ExitStatusCancelAsError(out, fail) ==
    IF out = "returned" /\ fail = 0 THEN 0 ELSE 2

\* cli.py lines 80-89: the exit status main gives for the way run_archive
\* ended
ExitStatus(out, fail) ==
    CASE out = "cancelled" -> 130
      [] out = "error" -> 2
      [] OTHER -> IF fail = 0 THEN 0 ELSE 2

\* ---------------------------------------------------------- specification

PatAuth == [mode |-> "pat", pat |-> "tok", username |-> "", password |-> ""]

\* one run of run_archive over an empty output root, with and without the
\* GUI's cancellation
Init == InitWith({PatAuth}, Switches, {0, 1}, RunInputs, BOOLEAN, {1}) /\ StreamIdle

\* run_archive without cancellation, and the processes it launches
NextCli ==
    \/ Start
    \/ LoopNext
    \/ Finish
    \/ SkipExisting
    \/ BeginPipeline
    \/ GitEnterRun
    \/ PopenOk
    \/ PopenFault
    \/ SetProc
    \/ PollContinue
    \/ ReadChunk
    \/ ReadFault
    \/ ReadEof
    \/ PackOk
    \/ PackFault
    \/ WriteRow
    \/ Sleep
    \/ ProcExit

\* the cancel handler, and what the worker does once the flag is set
NextCancel ==
    \/ LoopCancelled
    \/ GitEnterCancelled
    \/ PollCancelled
    \/ CancelClick
    \/ CancelReadProc
    \/ CancelTerminate

Next == NextCli \/ NextCancel

Spec == Init /\ [][Next]_vars

\* the GUI: the Start button pressed again after a run ended, with Cancel
\* available; the GUI always passes sleep_sec = 0 (gui.py line 258)
GuiSwitches ==
    { sw \in Switches : sw.zip_bundles /\ sw.delete_bundle_after_zip
                          /\ sw.skip_existing /\ ~sw.keep_mirrors }

InitGui ==
    /\ InitWith({PatAuth}, GuiSwitches, {0}, {RunInput(<<RepoA, RepoB>>, <<>>, 0)},
                {TRUE}, {MaxRuns})
    /\ StreamIdle

\* every step but the inter-repository delay, which the GUI never asks for
NextGui ==
    \/ Start
    \/ LoopNext
    \/ Finish
    \/ SkipExisting
    \/ BeginPipeline
    \/ GitEnterRun
    \/ PopenOk
    \/ PopenFault
    \/ SetProc
    \/ PollContinue
    \/ ReadChunk
    \/ ReadFault
    \/ ReadEof
    \/ PackOk
    \/ PackFault
    \/ WriteRow
    \/ ProcExit
    \/ NextCancel

SpecGui == InitGui /\ [][NextGui]_vars

\* repeated command-line runs (no cancellation) over the same output root
InitRerun ==
    InitWith({PatAuth}, Switches, {0, 1}, RunInputs, {FALSE}, {MaxRuns}) /\ StreamIdle

SpecRerun == InitRerun /\ [][NextCli]_vars

\* one run under each credential, the empty PAT included
AuthSwitches == { sw \in Switches : sw.skip_existing /\ ~sw.keep_mirrors }

InitAuth ==
    /\ InitWith(AuthConfigs, AuthSwitches, {1},
                { RunInput(<<RepoA, RepoB>>, <<>>, 0), RunInput(<<RepoC, RepoD>>, <<>>, 0) },
                BOOLEAN, {1})
    /\ StreamIdle

SpecAuth == InitAuth /\ [][Next]_vars

\* the read loop of run_git alone, over every short output and every way
\* read1 may cut it into chunks
MaxOut == 5

Outputs == UNION { [1..n -> Bytes] : n \in 0..MaxOut }

InitLines ==
    /\ InitWith({PatAuth}, GuiSwitches, {0}, {RunInput(<<RepoA>>, <<>>, 0)}, {TRUE}, {0})
    /\ stdout \in Outputs
    /\ rd = 0
    /\ buf = <<>>
    /\ fwd = <<>>
    /\ spc = "read"

NextLines ==
    \/ ReadSplit
    \/ FlushRemaining

SpecLines == InitLines /\ [][NextLines]_vars

\* the start of a run over every small listing, filter and limit
MaxListLen == 3
MaxLimit == 3

FilterRepoPool == {RepoA, RepoB, RepoC, RepoE}

FilterLists == UNION { [1..n -> FilterRepoPool] : n \in 0..MaxListLen }

OnlyValues ==
    { <<>>, <<" ">>, <<"b">>, <<"B">>, <<" ", "b">>, <<"A", " ">>, <<" ", " ">>, <<"a", " ", "B">> }

FilterInputs ==
    { RunInput(l, only, max) : l \in FilterLists, only \in OnlyValues, max \in 0..MaxLimit }

InitFilter ==
    /\ InitWith({PatAuth}, { sw \in Switches : sw.skip_existing /\ ~sw.keep_mirrors /\ ~sw.zip_bundles },
                {0}, FilterInputs, {FALSE}, {1})
    /\ StreamIdle

NextFilter == Start

SpecFilter == InitFilter /\ [][NextFilter]_vars

\* ------------------------------------------------------------------ claims

\* the indices of the repositories whose lower-cased name contains s
MatchIdx(list, s) ==
    { k \in 1..Len(list) : Contains(Lower(list[k].name), Lower(s)) }

\* the j-th smallest element of a set of indices
KthOf(M, j) == CHOOSE k \in M : Cardinality({ m \in M : m <= k }) = j

\* the first n (all, when n = 0) of the listed repositories with index in M
FirstOf(list, M, n) ==
    LET cnt == IF n > 0 THEN Min2(n, Cardinality(M)) ELSE Cardinality(M)
    IN [j \in 1..cnt |-> list[KthOf(M, j)]]

\* C2 as stated: the list iterated is the first n of the repositories whose
\* name contains the filter s itself, case-insensitively (every repository
\* when s is empty or only whitespace)
C2_FilterBySubstringAsGiven ==
    pc = "loop" =>
        LET s == opts.only_substring
            M == IF Strip(s) = <<>> THEN 1..Len(listing) ELSE MatchIdx(listing, s)
        IN repos = FirstOf(listing, M, opts.max_repos)

\* C2 amended: the list iterated is the first n (all, when n = 0) of the
\* repositories whose name contains, case-insensitively, the filter with its
\* leading and trailing whitespace removed; the limit is applied to the
\* filtered list
C2_FilterThenLimit ==
    pc = "loop" =>
        repos = FirstOf(listing, MatchIdx(listing, Strip(opts.only_substring)),
                        opts.max_repos)

C2_Witness ==
    /\ pc = "loop"
    /\ opts.max_repos = 2
    /\ Len(listing) = 3
    /\ Len(repos) = 2
    /\ Strip(opts.only_substring) = <<"b">>
    /\ Cardinality(MatchIdx(listing, <<"b">>)) = 3
    /\ repos[1] # repos[2]

\* C1: when a run returns normally, the report holds exactly one row per
\* repository of the filtered and limited list, in that list's order, whatever
\* happened to each repository
C1_OneRowPerRepoInOrder ==
    outcome = "returned" =>
        /\ Len(rows) = Len(repos)
        /\ \A k \in 1..Len(repos) :
              /\ rows[k].repo_name = repos[k].name
              /\ rows[k].repo_id = repos[k].id
              /\ rows[k].remote_url = repos[k].remote_url

C1_Witness ==
    /\ outcome = "returned"
    /\ Len(listing) = 4
    /\ Len(rows) = 2
    /\ rows[1].status = "FAIL"
    /\ rows[1].message = StepFailMsg("bundle", 1)
    /\ rows[2].status = "FAIL"
    /\ rows[2].message = <<"EXCEPTION: ", "zip">>

\* the cancel request came between two repositories: after a row was written
\* (or before the first repository), during the delay or before the loop's
\* check, with a repository still to come
CancelBetweenRepos ==
    /\ hist.click_pc \in {"loop", "sleep"}
    /\ hist.click_rows < Len(repos)

\* C3: a cancel request between repository k and repository k+1 leaves
\* exactly k rows, launches no process for a later repository, and the run
\* ends cancelled, never with a RunResult
C3_CancelBetweenRepos ==
    CancelBetweenRepos =>
        /\ Len(rows) = hist.click_rows
        /\ \A n \in 1..Len(procs) : procs[n].idx <= hist.click_rows
        /\ outcome # "returned"
        /\ pc \in {"loop", "sleep", "idle"}
        /\ (pc = "idle" => outcome = "cancelled")

C3_Witness ==
    /\ CancelBetweenRepos
    /\ hist.click_pc = "sleep"
    /\ hist.click_rows = 1
    /\ outcome = "cancelled"
    /\ Len(procs) = 3

\* C4: when the GUI's cancel terminated the live process, the report holds
\* only the rows written before the request
C4_NoRowForInterruptedRepo ==
    hist.killed_live => Len(rows) = hist.click_rows

\* where the worker is while a repository's process is in flight or its
\* bundle is being packaged
InFlightOrPacking == {"poll", "read", "pack"}

\* C5: a run in which cancellation was requested while a repository's process
\* was in flight or while it was being packaged never ends with the normal
\* completion
C5_CancelNeverReturns ==
    ~(outcome = "returned" /\ hist.click_pc \in InFlightOrPacking)

\* the processes launched for repository k
ProcsOf(k) == { n \in 1..Len(procs) : procs[n].idx = k }

\* row k speaks of repository k's own pipeline: OK with message OK only when
\* its own three steps returned 0, a step failure only with the step and exit
\* code of one of its own processes
RowIsOwn(k) ==
    /\ rows[k].message = <<"OK">> =>
          /\ rows[k].status = "OK"
          /\ \A s \in {"clone", "bundle", "verify"} :
                \E n \in ProcsOf(k) : procs[n].step = s /\ procs[n].state = "reaped"
                                      /\ procs[n].rc = 0
    /\ rows[k].status = "FAIL" =>
          \/ \E f \in Range(faults) : f.idx = k /\ rows[k].message = <<"EXCEPTION: ", f.what>>
          \/ \E n \in ProcsOf(k) : /\ procs[n].rc # 0
                                   /\ rows[k].message = StepFailMsg(procs[n].step, procs[n].rc)

\* C6: a non-zero exit code of bundle-verify gives that repository a FAIL row
\* naming the verify step and the exit code; the run goes on, every later
\* repository gets its row, and that row speaks of its own pipeline only
C6_VerifyFailureIsolated ==
    \A n \in 1..Len(procs) :
        LET p == procs[n] IN
        (p.step = "verify" /\ p.state = "reaped" /\ p.rc # 0) =>
            /\ outcome # "error"
            /\ IF Len(rows) >= p.idx
               THEN /\ rows[p.idx].status = "FAIL"
                    /\ rows[p.idx].message = <<"git bundle verify", " failed (rc=", ToString(p.rc), ")">>
               ELSE pc = "row" /\ i = p.idx
            /\ (outcome = "returned" => Len(rows) = Len(repos))
            /\ \A k \in (p.idx + 1)..Len(rows) : RowIsOwn(k)

C6_Witness ==
    /\ outcome = "returned"
    /\ Len(rows) = 2
    /\ \E n \in ProcsOf(1) : procs[n].step = "verify" /\ procs[n].rc = 1
    /\ rows[1].status = "FAIL"
    /\ rows[2].status = "OK"
    /\ rows[2].message = <<"OK">>

CountStatus(s) == Cardinality({ k \in 1..Len(rows) : rows[k].status = s })

\* C7: an unexpected fault while a repository is processed becomes that
\* repository's FAIL row with message EXCEPTION: <fault> and no artifact path,
\* counted once in fail_count; the loop goes on, and the run ends early only
\* by cancellation
C7_FaultBecomesFailRow ==
    /\ \A n \in 1..Len(faults) :
          LET f == faults[n] IN
          /\ outcome # "error"
          /\ IF Len(rows) >= f.idx
             THEN /\ rows[f.idx].status = "FAIL"
                  /\ rows[f.idx].message = <<"EXCEPTION: ", f.what>>
                  /\ rows[f.idx].artifact_path = <<>>
                  /\ rows[f.idx].repo_name = repos[f.idx].name
             ELSE pc = "row" /\ i = f.idx /\ ~result.success
          /\ (outcome = "returned" => Len(rows) = Len(repos))
    /\ fail_count = CountStatus("FAIL")
    /\ ok_count = CountStatus("OK")
    /\ (outcome = "cancelled" => cancel_flag)

C7_Witness ==
    /\ Len(faults) = 1
    /\ faults[1].idx = 1
    /\ faults[1].what = "io"
    /\ Len(rows) = 2
    /\ fail_count = 1
    /\ rows[2].status = "OK"
    /\ outcome = "returned"

AllRowsOk == \A k \in 1..Len(rows) : rows[k].status = "OK"

\* C8 as stated: with skip_existing, a run that follows a completed run with
\* the same configuration launches no process and records only OK
C8_SecondRunSkipsAll ==
    (run >= 2 /\ opts.skip_existing /\ hist.prev_returned) =>
        /\ procs = <<>>
        /\ AllRowsOk
        /\ (outcome = "returned" => Len(rows) = Len(repos))

\* C8 amended: with skip_existing, a run that follows a completed run in which
\* every repository was recorded OK launches no git process and records OK
\* for every repository
C8_SecondRunSkipsAllAfterOk ==
    (run >= 2 /\ opts.skip_existing /\ hist.prev_allok) =>
        /\ procs = <<>>
        /\ AllRowsOk
        /\ pc \in {"idle", "loop", "skipcheck", "row", "sleep"}
        /\ (outcome = "returned" => Len(rows) = Len(repos))

C8_Witness ==
    /\ run = 2
    /\ opts.skip_existing
    /\ opts.zip_bundles
    /\ opts.delete_bundle_after_zip
    /\ hist.prev_allok
    /\ outcome = "returned"
    /\ Len(rows) = 2
    /\ rows[1].message = <<"SKIPPED (zip exists)">>
    /\ rows[2].message = <<"SKIPPED (zip exists)">>

\* the artifact skip_existing looks for is on disk
ArtifactOnDisk(safe) ==
    IF opts.zip_bundles
    THEN \E z \in zip_files : GlobZip(z.name, safe)
    ELSE \E f \in bundle_files : f.name = BundleName(safe)

\* the early return of archive_one_repo: success, a SKIPPED message, the path
\* of a file that exists, and nothing else touched
SkipStep ==
    (pc = "skipcheck" /\ opts.skip_existing /\ ArtifactOnDisk(CurSafe) /\ pc' # pc) =>
        /\ pc' = "row"
        /\ result'.success
        /\ result'.msg = IF opts.zip_bundles THEN <<"SKIPPED (zip exists)">>
                         ELSE <<"SKIPPED (bundle exists)">>
        /\ IF opts.zip_bundles
           THEN \E z \in zip_files :
                   GlobZip(z.name, CurSafe) /\ result'.artifact_path = <<"bundles/">> \o z.name
           ELSE result'.artifact_path = <<"bundles/">> \o CurSafe \o <<".bundle">>
        /\ UNCHANGED << mirrors, bundle_files, zip_files, mirrors_dir, procs, log >>

\* repositories {A, B}, zip disabled, skip_existing, only A's bundle on disk
\* when the run starts
ScenarioAB ==
    /\ opts.skip_existing
    /\ ~opts.zip_bundles
    /\ Len(repos) = 2
    /\ BundleName(safe_filename(repos[1].name)) \in hist.start_bundles
    /\ BundleName(safe_filename(repos[2].name)) \notin hist.start_bundles

ScenarioABOutcome ==
    (ScenarioAB /\ outcome = "returned") =>
        /\ rows[1].status = "OK"
        /\ rows[1].message = <<"SKIPPED (bundle exists)">>
        /\ \A n \in 1..Len(procs) : procs[n].idx = 2
        /\ ((faults = <<>> /\ \A n \in 1..Len(procs) : procs[n].rc = 0) =>
               /\ rows[2].status = "OK"
               /\ rows[2].message = <<"OK">>
               /\ [n \in 1..Len(procs) |-> procs[n].step] = <<"clone", "bundle", "verify">>)

\* C9: with skip_existing and the artifact on disk, archive_one_repo returns
\* success with a SKIPPED message and the existing path, launches nothing and
\* changes no file or directory; over {A, B} with only A's bundle present the
\* rows are A: OK SKIPPED (bundle exists), B: OK OK, with one clone, bundle,
\* verify sequence, for B
C9_SkipLeavesAllUnchanged == [][SkipStep]_vars /\ []ScenarioABOutcome

C9_Witness ==
    /\ ScenarioAB
    /\ outcome = "returned"
    /\ rows[2].message = <<"OK">>
    /\ Len(procs) = 3
    /\ repos[1].name # repos[2].name
    /\ safe_filename(repos[1].name) # safe_filename(repos[2].name)

\* the raw credential is in none of the lines
NoCredential(lines) ==
    \A k \in 1..Len(lines) : auth_to_basic_b64(auth) \notin Range(lines[k])

\* the command line with every argument that carries the authorization
\* header replaced by the fixed text
RedactedLine(argv) ==
    <<"RUN: ">> \o
    JoinSp([k \in 1..Len(argv) |->
              IF "Authorization:" \in Range(argv[k])
              THEN <<"http.extraHeader=", "Authorization:", " ", "Basic", " ", "***REDACTED***">>
              ELSE argv[k]])

\* C10: no RUN line in the log or given to the progress callback holds the raw
\* credential; the header argument is replaced there by the fixed text, and
\* the launched process gets the argument with the credential in it
C10_Redaction ==
    /\ NoCredential(log)
    /\ NoCredential(progress)
    /\ \A n \in 1..Len(procs) :
          LET p == procs[n] IN
          /\ p.logged = RedactedLine(p.argv)
          /\ p.logged \in Range(log)
          /\ p.logged \in Range(progress)
          /\ p.step = "clone" =>
                /\ p.argv[3] = <<"http.extraHeader=", "Authorization:", " ", "Basic", " ",
                                 auth_to_basic_b64(auth)>>
                /\ Contains(p.logged, <<"***REDACTED***">>)

C10_Witness ==
    /\ auth.mode = "userpass"
    /\ Len(procs) = 3
    /\ procs[1].step = "clone"
    /\ procs[3].step = "verify"
    /\ Len(log) = 3

\* the step run_git takes when it is entered with the flag set
EntryCancelledStep ==
    (pc = "git_enter" /\ IsCancelled /\ pc' # pc) =>
        /\ pc' = "idle"
        /\ outcome' = "cancelled"
        /\ UNCHANGED << procs, log, progress, current_proc >>

\* C11: entered with is_cancelled() true, run_git raises CancelledError; no
\* process is launched, no RUN line is written and the handle setter is not
\* called
C11_CancelledAtEntry == [][EntryCancelledStep]_vars

C11_Witness ==
    /\ outcome = "cancelled"
    /\ hist.click_pc = "git_enter"
    /\ step = "bundle"
    /\ Len(procs) = 1
    /\ Len(log) = 1
    /\ procs[1].state = "reaped"
    /\ current_proc = 0

\* C12: run_git never returns the exit code of a process that was ended
\* because of the cancellation request, whether its own poll or the cancel
\* handler terminated it: such a call ends with CancelledError
C12_NoExitCodeForKilled ==
    \A n \in 1..Len(procs) : procs[n].killed => procs[n].state # "reaped"

\* the handle is set exactly while a run_git call of the cancellable run has
\* a launched process, and it is that call's process
HandleIsLiveCall ==
    /\ current_proc # 0 =>
          /\ cancellable
          /\ pc \in {"poll", "read"}
          /\ current_proc = Len(procs)
          /\ procs[current_proc].idx = i
          /\ procs[current_proc].step = step
    /\ (cancellable /\ pc \in {"poll", "read"}) => current_proc = Len(procs)

\* what the cancel handler gets when it reads the handle
CancelReadsLiveOrNone ==
    (cpc = "read_proc" /\ cpc' # cpc) =>
        \/ cp' = 0 /\ pc \notin {"poll", "read"}
        \/ /\ cp' = Len(procs)
           /\ pc \in {"poll", "read"}
           /\ procs[cp'].idx = i
           /\ procs[cp'].step = step

\* C13: the registered handle is non-null only while a run_git call has a
\* launched process, is set to that process after the launch and is None
\* again when run_git exits by any path; a cancel request that reads it gets
\* None or the process of the step in flight, never an earlier step's
C13_HandleOnlyDuringCall == []HandleIsLiveCall /\ [][CancelReadsLiveOrNone]_vars

C13_Witness ==
    /\ cpc = "terminate"
    /\ cp = 2
    /\ current_proc = 2
    /\ procs[1].state = "reaped"
    /\ procs[2].step = "bundle"
    /\ pc = "read"

\* C14: with sleep_sec > 0 the delay follows every repository but the last;
\* after the last repository's row run_archive goes on to the summary
\* without sleeping
C14_NoSleepAfterLast ==
    ~(pc = "sleep" /\ i = Len(repos))

\* the run has ended, by return, by CancelledError or by another exception
RunEnded == pc = "idle" /\ outcome \in {"returned", "cancelled", "error"}

\* C15: the exit status is 0 exactly when the run completed with fail count
\* 0, non-zero when it completed with a failed repository, and on
\* cancellation a non-zero code that differs from the one for failed
\* repositories
C15_ExitStatus ==
    RunEnded =>
        LET s == ExitStatus(outcome, fail_count) IN
        /\ (s = 0) <=> (outcome = "returned" /\ fail_count = 0)
        /\ (outcome = "returned" /\ fail_count > 0) => s # 0
        /\ outcome = "cancelled" =>
              /\ s # 0
              /\ \A f \in 1..Len(listing) : s # ExitStatus("returned", f)

C15_Witness ==
    /\ RunEnded
    /\ outcome = "cancelled"
    /\ fail_count = 1
    /\ Len(rows) = 1
    /\ ExitStatus(outcome, fail_count) = 130

\* the credential is one AuthConfig.validate rejects
ConfigError ==
    IF auth.mode = "pat" THEN auth.pat = ""
    ELSE auth.username = "" \/ auth.password = ""

\* C16: with an empty PAT (or an empty user name or password) run_archive
\* fails before the listing request and before any process is launched; no
\* repository is processed and no row is written
C16_ConfigErrorFailsFast ==
    ConfigError =>
        /\ ~hist.list_requested
        /\ procs = <<>>
        /\ repos = <<>>
        /\ rows = <<>>
        /\ log = <<>>
        /\ outcome \in {"none", "error"}
        /\ pc = "idle"

C16_Witness ==
    /\ ConfigError
    /\ auth.mode = "userpass"
    /\ auth.username = "u"
    /\ run = 1
    /\ outcome = "error"
    /\ Len(listing) = 2
    /\ mirrors_dir

\* the processes launched for repository k, in launch order
LaunchedFor(k) == SelectSeq(procs, LAMBDA p : p.idx = k)

StepOrder == <<"clone", "bundle", "verify">>

\* every repository's processes are a prefix of clone, bundle, verify, each
\* launched after the one before it returned 0; packaging follows a verify
\* that returned 0
StepsInOrder ==
    /\ \A k \in 1..Len(repos) :
          LET ps == LaunchedFor(k) IN
          /\ Len(ps) <= Len(StepOrder)
          /\ \A j \in 1..Len(ps) : ps[j].step = StepOrder[j]
          /\ \A j \in 1..(Len(ps) - 1) : ps[j].state = "reaped" /\ ps[j].rc = 0
    /\ pc = "pack" =>
          LET ps == LaunchedFor(i) IN
          /\ Len(ps) = Len(StepOrder)
          /\ ps[Len(ps)].state = "reaped"
          /\ ps[Len(ps)].rc = 0
    /\ \A z \in zip_files :
          \E n \in 1..Len(procs) :
              /\ procs[n].src = z.src
              /\ procs[n].step = "verify"
              /\ procs[n].state = "reaped"
              /\ procs[n].rc = 0

\* a step that returned non-zero ends the repository's pipeline: the next
\* thing is its row, with no packaging and no cleanup
FailedStepEndsPipeline ==
    /\ (pc = "read" /\ procs[Len(procs)].state = "exited" /\ procs[Len(procs)].rc # 0
          /\ pc' # pc) =>
            /\ pc' = "row"
            /\ ~result'.success
            /\ UNCHANGED fsVars
    /\ (pc = "row" /\ ~result.success /\ pc' # pc) =>
            /\ pc' \in {"loop", "sleep"}
            /\ Len(rows') = Len(rows) + 1
            /\ UNCHANGED << fsVars, procs >>

\* C17: for one repository the steps are launched only in the order clone,
\* bundle-create, bundle-verify, each at most once and only after the one
\* before returned 0; packaging and cleanup only after verify returned 0;
\* after the first non-zero exit code nothing more is done for it
C17_StepsInOrderStopAtFailure == []StepsInOrder /\ [][FailedStepEndsPipeline]_vars

C17_Witness ==
    /\ outcome = "returned"
    /\ Len(rows) = 2
    /\ Len(LaunchedFor(1)) = 2
    /\ LaunchedFor(1)[2].rc = 1
    /\ Len(LaunchedFor(2)) = 3
    /\ rows[2].message = <<"OK">>
    /\ opts.zip_bundles
    /\ MirrorName(safe_filename(repos[1].name)) \in mirrors

\* the text of a step failure, as the code's three f-strings give it
FailureText(stp, rc) ==
    CASE stp = "clone" -> <<"git clone --mirror", " failed (rc=", ToString(rc), ")">>
      [] stp = "bundle" -> <<"git bundle create", " failed (rc=", ToString(rc), ")">>
      [] stp = "verify" -> <<"git bundle verify", " failed (rc=", ToString(rc), ")">>

\* archive_one_repo has just returned because the current repository's last
\* launched step gave a non-zero exit code
ReturnedOnStepFailure ==
    /\ pc = "row"
    /\ procs # <<>>
    /\ procs[Len(procs)].idx = i
    /\ procs[Len(procs)].state = "reaped"
    /\ procs[Len(procs)].rc # 0

\* C18: on a step failure archive_one_repo returns False, the message
\* '<step> failed (rc=<code>)' of the failing step with its exit code, and a
\* path that is None for clone and bundle-create and the bundle path for
\* bundle-verify
C18_StepFailureResult ==
    ReturnedOnStepFailure =>
        LET p == procs[Len(procs)] IN
        /\ ~result.success
        /\ result.msg = FailureText(p.step, p.rc)
        /\ result.artifact_path =
              IF p.step = "verify"
              THEN <<"bundles/">> \o safe_filename(repos[i].name) \o <<".bundle">>
              ELSE NoneVal

C18_Witness ==
    /\ ReturnedOnStepFailure
    /\ procs[Len(procs)].step = "verify"
    /\ procs[Len(procs)].rc = 1
    /\ result.artifact_path = <<"bundles/", "a", "_", "b", ".bundle">>
    /\ repos[i].name = <<"a", " ", "b">>

\* the step that launches a process: nothing stale is at the path the
\* process is about to fill
LaunchFindsNoStaleState ==
    (pc = "popen" /\ Len(procs') = Len(procs) + 1) =>
        /\ step = "clone" => MirrorName(safe_filename(repos[i].name)) \notin mirrors
        /\ step = "bundle" =>
              ~(\E f \in bundle_files : f.name = BundleName(safe_filename(repos[i].name)))

ReturnedOk == pc = "row" /\ result.success /\ result.msg = <<"OK">>

ArtifactVerified(path) ==
    \E f \in bundle_files \cup zip_files :
        /\ path = <<"bundles/">> \o f.name
        /\ f.verified

\* C24: a repository is recorded OK only if its artifact holds a bundle that
\* passed git bundle verify; a bundle left by a failed verify or an
\* interrupted bundle-create is never reported OK as SKIPPED (bundle exists)
C24_OkOnlyIfVerified ==
    (pc = "row" /\ result.success) => ArtifactVerified(result.artifact_path)

\* C25: with zip and skip_existing a repository is skipped only for a package
\* produced for that same repository; the package of another repository
\* whose sanitized name is equal, or begins with this one's followed by '_',
\* never makes it skipped or becomes its artifact
C25_SkipOnlyOwnPackage ==
    (pc = "row" /\ result.msg = <<"SKIPPED (zip exists)">>) =>
        \E z \in zip_files :
            /\ result.artifact_path = <<"bundles/">> \o z.name
            /\ z.src = repos[i].id

\* C26: once the cancel flag is set run_git launches no new process for the
\* rest of the run, under every interleaving of the cancel handler with the
\* worker
C26_NoLaunchAfterCancel ==
    \A n \in 1..Len(procs) : ~procs[n].flag_at_launch

C22_OneProcessAlive ==
    Cardinality({ n \in 1..Len(procs) : procs[n].state \in {"running", "abandoned"} }) <= 1

\* C22 amended: at most one git process is under run_git's supervision at any
\* time; a process is launched only when every earlier one has exited, been
\* terminated or been abandoned by a raised error; and a run starts only when
\* no worker is alive
C22_OneSupervisedProcess ==
    /\ [](Cardinality({ n \in 1..Len(procs) : procs[n].state = "running" }) <= 1)
    /\ [][ /\ (Len(procs') > Len(procs) /\ run' = run) =>
                \A n \in 1..Len(procs) : procs[n].state # "running"
           /\ (run' # run) => pc = "idle" ]_vars

C22_Witness ==
    /\ run = 2
    /\ Len(procs) = 2
    /\ procs[1].state = "abandoned"
    /\ procs[2].state = "running"

\* C23: the cancel flag, once set, is cleared only by Start, and only when no
\* worker is alive: it stays set until the worker it was set for has ended
C23_FlagClearedOnlyByStart ==
    [][ (cancel_flag /\ ~cancel_flag') => (pc = "idle" /\ run' = run + 1) ]_vars

C23_Witness ==
    /\ run = 2
    /\ clicks = 1
    /\ ~cancel_flag
    /\ pc = "poll"

LineEnds == {"\n", "\r"}

\* a text cut at every line end: the pieces between them, the last one being
\* what follows the last line end
RECURSIVE SplitAtLineEnds(_)
SplitAtLineEnds(s) ==
    IF \A k \in 1..Len(s) : s[k] \notin LineEnds
    THEN << s >>
    ELSE LET k == CHOOSE k \in 1..Len(s) :
                      s[k] \in LineEnds /\ \A j \in 1..(k - 1) : s[j] \notin LineEnds
         IN << SubSeq(s, 1, k - 1) >> \o SplitAtLineEnds(SubSeq(s, k + 1, Len(s)))

IsBlank(s) == \A k \in 1..Len(s) : s[k] \in {" ", "\n", "\r"}

NonBlank(pieces) == SelectSeq(pieces, LAMBDA x : ~IsBlank(x))

FragmentsWithinLimit ==
    LET pieces == SplitAtLineEnds(stdout)
    IN \A k \in 1..Len(pieces) : Len(pieces[k]) <= BufLimit

\* C21: when no undelimited fragment of the output exceeds the limit, then
\* however the output is cut into chunks, after each chunk the strings given
\* to on_output are the non-blank pieces of the text read so far that a line
\* end has closed, in order, buf holds what follows the last line end, and at
\* the end of the output they are the non-blank pieces of the whole output
C21_LinesForwarded ==
    (spc # "idle" /\ FragmentsWithinLimit) =>
        LET seen == SubSeq(stdout, 1, rd)
            closed == SplitAtLineEnds(Decode(seen))
            open == SplitAtLineEnds(seen)
        IN /\ spc = "read" =>
                /\ fwd = NonBlank(SubSeq(closed, 1, Len(closed) - 1))
                /\ buf = open[Len(open)]
           /\ spc = "done" => fwd = NonBlank(SplitAtLineEnds(Decode(stdout)))

C21_Witness ==
    /\ stdout = << "a", "\r", " ", "\n", "L" >>
    /\ spc = "read"
    /\ rd = 4
    /\ fwd = << << "a" >> >>
    /\ buf = <<>>

RECURSIVE Concat(_)
Concat(pieces) ==
    IF pieces = <<>> THEN <<>> ELSE Head(pieces) \o Concat(Tail(pieces))

\* C28: the strings given to on_output, joined, are the output with its line
\* ends and blank pieces removed, and buf is never longer than the limit
\* after a chunk
C28_NoOutputLost ==
    /\ spc = "done" => Concat(fwd) = Concat(NonBlank(SplitAtLineEnds(Decode(stdout))))
    /\ Len(buf) <= BufLimit

\* the part of C28 about the length of buf
C28_BufWithinLimit == Len(buf) <= BufLimit

====
